---- MODULE Spec2Model ----
(***************************************************************************)
(* Model of strategies.py: the static evaluator eval_board behind its      *)
(* lru_cache, the alphaBetaNegaMax search, and the search() methods of     *)
(* BertEngine, RandomMove, Alphabetical, FirstMove and ComboEngine.        *)
(*                                                                         *)
(* The rules engine (python-chess) is external.  A board is an abstract    *)
(* position 0 .. NPos-1; its piece counts, side to move and candidate      *)
(* moves are tables, and which candidate moves are legal and whether the   *)
(* side to move is in check are chosen freely in Init, so that the checks  *)
(* range over every such rules-engine behaviour.                           *)
(*                                                                         *)
(* Scores are counted in half points (2 = one pawn) because the bishop is  *)
(* worth 3.5: HalfPoints(x) is the model's value of the Python number x.   *)
(* Scaling by 2 preserves +, -, negation and every comparison.             *)
(***************************************************************************)
EXTENDS Integers, Sequences, FiniteSets, TLC

VARIABLES
    nmoves,     \* nmoves[b]: how many of board b's candidate moves are legal
    inCheck,    \* inCheck[b]: board.is_check() of board b
    cache,      \* eval_board's lru_cache: <<[key, value]>>, least recently used first
    result,     \* the last call: its operation, arguments and outcome
    calls       \* how many calls have been made

vars == <<nmoves, inCheck, cache, result, calls>>

----------------------------------------------------------------------------
(* Bounds of the model *)

\* the number of positions
NPos == 4
\* the candidate moves of a position
MaxMoves == 2
\* the capacity of the lru_cache (2**16 in the program), small enough to evict
maxsize == 2
\* the number of values of zobrist_hash, small enough to collide
HashRange == 2
\* the largest depth alphaBetaNegaMax is called with directly
MaxDepth == 2
\* the calls of one process run under Spec, SearchSpec and DecideSpec
MaxCalls == 3
MaxProbes == 1
MaxDecisions == 1

Boards == 0 .. (NPos - 1)

----------------------------------------------------------------------------
(* The rules engine: chess.Board, chess.Move *)

WHITE == "WHITE"
BLACK == "BLACK"
None == "None"
KING == "KING"
QUEEN == "QUEEN"
BISHOP == "BISHOP"
KNIGHT == "KNIGHT"
ROOK == "ROOK"
PAWN == "PAWN"
PIECE_TYPES == <<PAWN, KNIGHT, BISHOP, ROOK, QUEEN, KING>>

HalfPoints(x) == 2 * x

\* board.turn: the side to move alternates with every move
turn(b) == IF b % 2 = 0 THEN WHITE ELSE BLACK

\* the position reached from b by its k-th candidate move; the side to move flips
target(b, k) ==
    LET even == NPos + (NPos % 2)
        t == (b + 2 * k - 1) % even
    IN  IF t >= NPos THEN 1 ELSE t

\* a chess.Move generated by board.legal_moves: never a drop
Move(b, k) == [board |-> b, k |-> k, drop |-> None]

\* board.legal_moves, in the generator's order
legal_moves(b) == [k \in 1 .. nmoves[b] |-> Move(b, k)]

\* copy.deepcopy(board) followed by push(move)
push(b, move) == target(move.board, move.k)

\* board.piece_type_at(move.from_square): odd candidates are pawn moves
moved_piece(move) == IF move.k % 2 = 1 THEN PAWN ELSE KNIGHT

\* len(board.pieces(piece_type, color))
pieces(b, piece_type, color) ==
    CASE piece_type = KING -> 1
      [] piece_type = QUEEN -> IF color = BLACK /\ b % 4 = 3 THEN 0 ELSE 1
      [] piece_type = ROOK -> 2
      [] piece_type = BISHOP -> IF color = WHITE /\ b % 2 = 1 THEN 1 ELSE 2
      [] piece_type = KNIGHT -> 2
      [] piece_type = PAWN -> IF color = BLACK THEN 8 - (b % 3) ELSE 8

is_check(b) == inCheck[b]

is_checkmate(b) == inCheck[b] /\ nmoves[b] = 0

\* zobrist_hash: a fingerprint of the position, not injective
zobrist_hash(b) == b % HashRange

----------------------------------------------------------------------------
(* The static evaluator *)

PIECE_VALUES ==
    [p \in {KING, QUEEN, BISHOP, KNIGHT, ROOK, PAWN} |->
        CASE p = KING -> HalfPoints(0)
          [] p = QUEEN -> HalfPoints(9)
          [] p = BISHOP -> 7
          [] p = KNIGHT -> HalfPoints(3)
          [] p = ROOK -> HalfPoints(5)
          [] p = PAWN -> HalfPoints(1)]

INF == HalfPoints(999999)

CHECK_PENALTY == HalfPoints(100)

colorFactor(player) == IF player = WHITE THEN 1 ELSE -1

RECURSIVE side_score(_, _, _)
side_score(b, color, i) ==
    IF i > Len(PIECE_TYPES) THEN 0
    ELSE PIECE_VALUES[PIECE_TYPES[i]] * pieces(b, PIECE_TYPES[i], color)
         + side_score(b, color, i + 1)

\* the body of eval_board
eval_board(b) ==
    LET white_score == side_score(b, WHITE, 1)
        black_score == side_score(b, BLACK, 1)
        score0 == (white_score - black_score) * colorFactor(turn(b))
        score1 == IF is_checkmate(b) THEN -INF ELSE score0
    IN  IF is_check(b) THEN score1 - CHECK_PENALTY ELSE score1

----------------------------------------------------------------------------
(* functools.lru_cache around eval_board *)

\* a lookup that trusts the hash alone
cache_find_by_hash(c, b) ==
    {i \in 1 .. Len(c) : zobrist_hash(c[i].key) = zobrist_hash(b)}

\* the entries a lookup of board b matches: equal hash, then equal key
cache_find(c, b) ==
    {i \in 1 .. Len(c) : zobrist_hash(c[i].key) = zobrist_hash(b) /\ c[i].key = b}

remove_at(c, i) == [j \in 1 .. (Len(c) - 1) |-> IF j < i THEN c[j] ELSE c[j + 1]]

\* a miss: store the new entry, evicting the least recently used one when full
cache_store(c, b, v) ==
    LET kept == IF Len(c) >= maxsize THEN Tail(c) ELSE c
    IN  Append(kept, [key |-> b, value |-> v])

\* eval_board as decorated: [score, cache]
lru_cache(c, b) ==
    LET hits == cache_find(c, b)
    IN  IF hits # {}
        THEN LET i == CHOOSE j \in hits : TRUE
             IN  [score |-> c[i].value, cache |-> Append(remove_at(c, i), c[i])]
        ELSE LET v == eval_board(b)
             IN  [score |-> v, cache |-> cache_store(c, b, v)]

cache_clear == <<>>

----------------------------------------------------------------------------
(* The search *)

RECURSIVE alphaBetaNegaMax(_, _, _, _, _), alphaBetaLoop(_, _, _, _, _, _)

\* the for loop of alphaBetaNegaMax from the i-th legal move on
alphaBetaLoop(c, b, depth, alpha, beta, i) ==
    IF i > Len(legal_moves(b))
    THEN [score |-> alpha, cache |-> c]
    ELSE LET newBoard == push(b, legal_moves(b)[i])
             r == alphaBetaNegaMax(c, newBoard, depth - 1, -beta, -alpha)
             score == -r.score
         IN  IF score >= beta
             THEN [score |-> beta, cache |-> r.cache]
             ELSE alphaBetaLoop(r.cache, b, depth,
                                IF score > alpha THEN score ELSE alpha, beta, i + 1)

alphaBetaNegaMax(c, b, depth, alpha, beta) ==
    IF depth = 0
    THEN lru_cache(c, b)
    ELSE alphaBetaLoop(c, b, depth, alpha, beta, 1)

----------------------------------------------------------------------------
(* BertEngine.search *)

Depth == 3

\* collect without its elif branch: a move that only equals the best score is dropped
collect_strict(best, move, user_score) ==
    IF user_score > best.score
    THEN [score |-> user_score, moves |-> <<move>>]
    ELSE best

\* lines 132-138: keep every move that attains the best score so far
collect(best, move, user_score) ==
    IF user_score > best.score
    THEN [score |-> user_score, moves |-> <<move>>]
    ELSE IF user_score = best.score
         THEN [score |-> best.score, moves |-> Append(best.moves, move)]
         ELSE best

\* line 129: the score attributed to a root move
user_score_of(b, score) == IF turn(b) = WHITE THEN score ELSE -score

RECURSIVE bertLoop(_, _, _, _, _)
\* the for loop of BertEngine.search from the i-th legal move on
bertLoop(c, b, i, best, scores) ==
    IF i > Len(legal_moves(b))
    THEN [best |-> best, scores |-> scores, cache |-> c]
    ELSE LET move == legal_moves(b)[i]
             new_board == push(b, move)
             r == alphaBetaNegaMax(c, new_board, Depth, -INF, INF)
             user_score == user_score_of(b, r.score)
         IN  bertLoop(r.cache, b, i + 1, collect(best, move, user_score),
                      Append(scores, [raw |-> r.score, user |-> user_score]))

\* line 143: is the cache cleared after choosing best_move
clears_cache(best_move) == best_move.drop = PAWN

\* the move field of a call that raised and returned nothing
NoMove == [board |-> 0, k |-> 0, drop |-> None]

\* root_moves when it is not a list
NoRestriction == [list |-> FALSE, moves |-> <<>>]

Failed(op, b, root_moves) ==
    [op |-> op, board |-> b, root_moves |-> root_moves, ok |-> FALSE,
     error |-> "IndexError", move |-> NoMove]

Played(op, b, root_moves, move) ==
    [op |-> op, board |-> b, root_moves |-> root_moves, ok |-> TRUE,
     error |-> None, move |-> move]

\* a choice that answers a null move for an empty list instead of raising
random_choice_or_null(seq) ==
    IF seq = <<>> THEN {[ok |-> TRUE, move |-> NoMove]}
    ELSE {[ok |-> TRUE, move |-> seq[i]] : i \in 1 .. Len(seq)}

\* the outcomes of random.choice(seq): any element, or IndexError on an empty list
random_choice(seq) ==
    IF seq = <<>> THEN {[ok |-> FALSE, move |-> NoMove]}
    ELSE {[ok |-> TRUE, move |-> seq[i]] : i \in 1 .. Len(seq)}

\* the outcome of seq[0]
first_of(seq) ==
    IF seq = <<>> THEN [ok |-> FALSE, move |-> NoMove]
    ELSE [ok |-> TRUE, move |-> seq[1]]

Outcome(op, b, root_moves, pick) ==
    IF pick.ok THEN Played(op, b, root_moves, pick.move) ELSE Failed(op, b, root_moves)

BertSearch(b, root_moves) ==
    LET run == bertLoop(cache, b, 1, [score |-> -INF, moves |-> <<>>], <<>>)
    IN  /\ \E pick \in random_choice(run.best.moves) :
               /\ cache' = IF pick.ok /\ clears_cache(pick.move)
                           THEN cache_clear ELSE run.cache
               /\ result' = [op |-> "BertEngine", board |-> b, root_moves |-> root_moves,
                             ok |-> pick.ok,
                             error |-> IF pick.ok THEN None ELSE "IndexError",
                             move |-> pick.move, scores |-> run.scores]
        /\ calls' = calls + 1
        /\ UNCHANGED <<nmoves, inCheck>>

----------------------------------------------------------------------------
(* Move texts: sequences of character codes, compared as Python compares str *)

FileChar(f) == 96 + f
RankChar(r) == 48 + r

from_file(move) == 1 + ((move.board + 3 * move.k) % 8)

is_promotion(move) == moved_piece(move) = PAWN /\ move.board % 4 = 2

\* str(move): the UCI text, such as e2e4, g1h3 or a7a8q
uci(move) ==
    LET f == from_file(move)
        white == turn(move.board) = WHITE
    IN  IF moved_piece(move) = PAWN
        THEN IF is_promotion(move)
             THEN <<FileChar(f), RankChar(7), FileChar(f), RankChar(8), 113>>
             ELSE IF white
                  THEN <<FileChar(f), RankChar(2), FileChar(f), RankChar(4)>>
                  ELSE <<FileChar(f), RankChar(7), FileChar(f), RankChar(5)>>
        ELSE IF white
             THEN <<FileChar(f), RankChar(1), FileChar((f % 8) + 1), RankChar(3)>>
             ELSE <<FileChar(f), RankChar(8), FileChar((f % 8) + 1), RankChar(6)>>

\* board.san(move), such as e4, a8=Q or Nh3
san(move) ==
    LET u == uci(move)
    IN  IF moved_piece(move) = PAWN
        THEN IF is_promotion(move) THEN <<u[3], u[4], 61, 81>> ELSE <<u[3], u[4]>>
        ELSE <<78, u[3], u[4]>>

RECURSIVE StrLess(_, _)
StrLess(s, t) ==
    IF s = <<>> THEN t # <<>>
    ELSE IF t = <<>> THEN FALSE
    ELSE IF s[1] # t[1] THEN s[1] < t[1]
    ELSE StrLess(Tail(s), Tail(t))

RECURSIVE insert_by_key(_, _)
\* insert x = [key, item] after every element whose key is not greater (a stable sort)
insert_by_key(sorted, x) ==
    IF sorted = <<>> THEN <<x>>
    ELSE IF StrLess(x.key, sorted[1].key) THEN <<x>> \o sorted
    ELSE <<sorted[1]>> \o insert_by_key(Tail(sorted), x)

RECURSIVE sort_keyed(_, _)
sort_keyed(keyed, i) ==
    IF i = 0 THEN <<>> ELSE insert_by_key(sort_keyed(keyed, i - 1), keyed[i])

\* moves.sort(key=str)
sort_by_uci(moves) ==
    LET keyed == [i \in 1 .. Len(moves) |-> [key |-> uci(moves[i]), item |-> moves[i]]]
        s == sort_keyed(keyed, Len(keyed))
    IN  [i \in 1 .. Len(s) |-> s[i].item]

\* moves.sort(key=board.san)
sort_by_san(moves) ==
    LET keyed == [i \in 1 .. Len(moves) |-> [key |-> san(moves[i]), item |-> moves[i]]]
        s == sort_keyed(keyed, Len(keyed))
    IN  [i \in 1 .. Len(s) |-> s[i].item]

----------------------------------------------------------------------------
(* RandomMove, Alphabetical, FirstMove *)

RandomMoveSearch(b, root_moves) ==
    /\ \E pick \in random_choice(legal_moves(b)) :
           result' = Outcome("RandomMove", b, root_moves, pick)
    /\ calls' = calls + 1
    /\ UNCHANGED <<nmoves, inCheck, cache>>

AlphabeticalSearch(b, root_moves) ==
    /\ result' = Outcome("Alphabetical", b, root_moves, first_of(sort_by_san(legal_moves(b))))
    /\ calls' = calls + 1
    /\ UNCHANGED <<nmoves, inCheck, cache>>

FirstMoveSearch(b, root_moves) ==
    /\ result' = Outcome("FirstMove", b, root_moves, first_of(sort_by_uci(legal_moves(b))))
    /\ calls' = calls + 1
    /\ UNCHANGED <<nmoves, inCheck, cache>>

----------------------------------------------------------------------------
(* ComboEngine.search *)

\* a field of chess.engine.Limit: <<>> is None, <<n>> is the int n
isinstance_int(x) == Len(x) = 1

int_or_zero(x) == IF isinstance_int(x) THEN x[1] ELSE 0

\* lines 197-205: [my_time, my_inc]
my_clock(b, time_limit) ==
    IF isinstance_int(time_limit.time)
    THEN [my_time |-> time_limit.time[1], my_inc |-> 0]
    ELSE IF turn(b) = WHITE
         THEN [my_time |-> int_or_zero(time_limit.white_clock),
               my_inc |-> int_or_zero(time_limit.white_inc)]
         ELSE [my_time |-> int_or_zero(time_limit.black_clock),
               my_inc |-> int_or_zero(time_limit.black_inc)]

\* line 209: my_time / 60 + my_inc > 10, with both sides multiplied by 60
plenty_of_time(my_time, my_inc) == my_time + 60 * my_inc > 60 * 10

\* line 207
possible_moves_of(b, root_moves) ==
    IF root_moves.list THEN root_moves.moves ELSE legal_moves(b)

ComboSearch(b, time_limit, draw_offered, root_moves) ==
    LET clock == my_clock(b, time_limit)
        possible_moves == possible_moves_of(b, root_moves)
        random == plenty_of_time(clock.my_time, clock.my_inc)
        picks == IF random THEN random_choice(possible_moves)
                 ELSE {first_of(sort_by_uci(possible_moves))}
    IN  /\ \E pick \in picks :
               result' = [op |-> "ComboEngine", board |-> b, root_moves |-> root_moves,
                          time_limit |-> time_limit, random |-> random,
                          ok |-> pick.ok, error |-> IF pick.ok THEN None ELSE "IndexError",
                          move |-> pick.move, draw_offered |-> draw_offered]
        /\ calls' = calls + 1
        /\ UNCHANGED <<nmoves, inCheck, cache>>

----------------------------------------------------------------------------
(* The inputs *)

Windows == {<<-INF, INF>>, <<-INF, 0>>, <<0, INF>>}

\* the restrictions a caller passes for board b: none, or a list of its legal moves
RootMoves(b) ==
    LET legal == {legal_moves(b)[i] : i \in 1 .. Len(legal_moves(b))}
    IN  {NoRestriction, [list |-> TRUE, moves |-> <<>>]}
        \cup {[list |-> TRUE, moves |-> <<m>>] : m \in legal}
        \cup {[list |-> TRUE, moves |-> p] : p \in {q \in legal \X legal : q[1] # q[2]}}

TimeValues == {<<>>, <<600>>, <<601>>}
ClockValues == {<<>>, <<540>>}
IncValues == {<<>>, <<1>>, <<2>>}

Limits ==
    [time : TimeValues, white_clock : ClockValues, white_inc : IncValues,
     black_clock : ClockValues, black_inc : IncValues]

----------------------------------------------------------------------------
Init ==
    /\ nmoves \in [Boards -> 0 .. MaxMoves]
    /\ inCheck \in [Boards -> BOOLEAN]
    /\ cache = <<>>
    /\ result = [op |-> "none"]
    /\ calls = 0

EvalBoardCall(b) ==
    LET r == lru_cache(cache, b)
    IN  /\ cache' = r.cache
        /\ result' = [op |-> "eval_board", board |-> b, score |-> r.score,
                      hit |-> cache_find(cache, b) # {}]
        /\ calls' = calls + 1
        /\ UNCHANGED <<nmoves, inCheck>>

AlphaBetaCall(b, depth, w) ==
    LET r == alphaBetaNegaMax(cache, b, depth, w[1], w[2])
    IN  /\ cache' = r.cache
        /\ result' = [op |-> "alphaBetaNegaMax", board |-> b, depth |-> depth,
                      alpha |-> w[1], beta |-> w[2], score |-> r.score]
        /\ calls' = calls + 1
        /\ UNCHANGED <<nmoves, inCheck>>

\* one process run: searches and evaluations sharing the cache
Next ==
    /\ calls < MaxCalls
    /\ \/ \E b \in Boards : EvalBoardCall(b)
       \/ \E b \in Boards : BertSearch(b, NoRestriction)

Spec == Init /\ [][Next]_vars

\* the search and the evaluator applied to every position, depth and window
NextSearch ==
    /\ calls < MaxProbes
    /\ \/ \E b \in Boards : EvalBoardCall(b)
       \/ \E b \in Boards, depth \in 0 .. MaxDepth, w \in Windows : AlphaBetaCall(b, depth, w)

SearchSpec == Init /\ [][NextSearch]_vars

\* one decision by each strategy
NextDecide ==
    /\ calls < MaxDecisions
    /\ \/ \E b \in Boards : \E rm \in RootMoves(b) : BertSearch(b, rm)
       \/ \E b \in Boards : \E rm \in RootMoves(b) : RandomMoveSearch(b, rm)
       \/ \E b \in Boards : \E rm \in RootMoves(b) : AlphabeticalSearch(b, rm)
       \/ \E b \in Boards : \E rm \in RootMoves(b) : FirstMoveSearch(b, rm)
       \/ \E b \in Boards : \E rm \in RootMoves(b) : \E tl \in Limits, d \in BOOLEAN :
              ComboSearch(b, tl, d, rm)

DecideSpec == Init /\ [][NextDecide]_vars

----------------------------------------------------------------------------
(* Properties *)

LegalSet(b) == {legal_moves(b)[i] : i \in 1 .. Len(legal_moves(b))}

SeqSet(s) == {s[i] : i \in 1 .. Len(s)}

\* the restriction when it is a non-empty list, every legal move otherwise
Eligible(b, root_moves) ==
    IF root_moves.list /\ root_moves.moves # <<>>
    THEN SeqSet(root_moves.moves)
    ELSE LegalSet(b)

Strategies == {"BertEngine", "ComboEngine", "RandomMove", "Alphabetical", "FirstMove"}

RECURSIVE FullNegaMax(_, _), FullNegaMaxLoop(_, _, _, _)
\* the exhaustive negamax over the same tree: no window, no cut-off
FullNegaMaxLoop(b, depth, best, i) ==
    IF i > Len(legal_moves(b)) THEN best
    ELSE LET value == -FullNegaMax(push(b, legal_moves(b)[i]), depth - 1)
         IN  FullNegaMaxLoop(b, depth, IF value > best THEN value ELSE best, i + 1)

FullNegaMax(b, depth) ==
    IF depth = 0 THEN eval_board(b) ELSE FullNegaMaxLoop(b, depth, -INF, 1)

\* C1: after BertEngine.search returns a move, the score attributed to every
\* legal root move is the negation of the search result on its child, and the
\* returned move attains the maximum of these negated results.
C1_RootScoresNegated ==
    (result.op = "BertEngine" /\ result.ok) =>
        /\ \A i \in 1 .. Len(result.scores) :
               result.scores[i].user = -result.scores[i].raw
        /\ \A i \in 1 .. Len(result.scores) :
               -result.scores[result.move.k].raw >= -result.scores[i].raw

\* C2: with the full-width window alphaBetaNegaMax returns the value of the
\* exhaustive negamax of the same depth over the same tree.
C2_AlphaBetaEqualsFullNegaMax ==
    (result.op = "alphaBetaNegaMax" /\ result.alpha = -INF /\ result.beta = INF) =>
        result.score = FullNegaMax(result.board, result.depth)

\* C3: eval_board of a position whose side to move is checkmated is exactly
\* the sentinel -999999, and is below the score of every position that is
\* not checkmated.
C3_CheckmateIsSentinel ==
    (result.op = "eval_board" /\ is_checkmate(result.board)) =>
        /\ result.score = -INF
        /\ \A b \in Boards : ~is_checkmate(b) => result.score < eval_board(b)

\* C4: on a position with at least one legal move BertEngine.search returns
\* a move, and the move is a legal move of that position.
C4_BertReturnsLegalMove ==
    (result.op = "BertEngine" /\ legal_moves(result.board) # <<>>) =>
        /\ result.ok
        /\ result.move \in LegalSet(result.board)

\* C4 witness: a search that returned a move although every root move got
\* the extreme score -999999.
C4_Witness ==
    /\ result.op = "BertEngine"
    /\ result.ok
    /\ Len(result.scores) = MaxMoves
    /\ \A i \in 1 .. Len(result.scores) : result.scores[i].user = -INF

\* C5: the move returned by BertEngine.search or ComboEngine.search belongs
\* to the eligible set: the restriction when it is non-empty, every legal
\* move when it is empty or absent.
C5_MoveIsEligible ==
    (result.op \in {"BertEngine", "ComboEngine"} /\ result.ok) =>
        result.move \in Eligible(result.board, result.root_moves)

\* C6: when the move chosen by BertEngine.search is a pawn move, the
\* evaluation cache is empty when the call returns.
C6_PawnMoveClearsCache ==
    (result.op = "BertEngine" /\ result.ok /\ moved_piece(result.move) = PAWN) =>
        cache = <<>>

\* C7: every entry of the evaluation cache maps its position to the score
\* eval_board computes for it, and a call of eval_board through the cache
\* returns the score a recomputation gives.
C7_NoCacheDrift ==
    /\ \A i \in 1 .. Len(cache) : cache[i].value = eval_board(cache[i].key)
    /\ result.op = "eval_board" => result.score = eval_board(result.board)

\* C7 witness: a call of eval_board was answered from the cache while the
\* full cache held two positions with the same hash.
C7_Witness ==
    /\ result.op = "eval_board"
    /\ result.hit
    /\ Len(cache) = maxsize
    /\ \E i, j \in 1 .. Len(cache) :
           /\ i # j
           /\ zobrist_hash(cache[i].key) = zobrist_hash(cache[j].key)

\* C8: a decision requested on a position without legal moves and without a
\* root-move restriction ends in an error and returns no move, whatever the
\* strategy.
C8_NoLegalMovesFails ==
    (/\ result.op \in Strategies
     /\ legal_moves(result.board) = <<>>
     /\ ~result.root_moves.list) =>
        /\ ~result.ok
        /\ result.error = "IndexError"
        /\ result.move = NoMove

\* C8 witness: ComboEngine failed on a position without legal moves.
C8_Witness ==
    /\ result.op = "ComboEngine"
    /\ legal_moves(result.board) = <<>>
    /\ ~result.root_moves.list
    /\ ~result.ok

\* C9: on a position without legal moves alphaBetaNegaMax returns the value
\* eval_board gives that position, at every depth and for every window.
C9_TerminalUsesEvaluator ==
    (result.op = "alphaBetaNegaMax" /\ legal_moves(result.board) = <<>>) =>
        result.score = eval_board(result.board)

\* the clock of the side to move as the claim derives it
ClaimedClock(b, time_limit) ==
    IF time_limit.time # <<>>
    THEN [my_time |-> time_limit.time[1], my_inc |-> 0]
    ELSE LET clock == IF turn(b) = WHITE THEN time_limit.white_clock
                      ELSE time_limit.black_clock
             inc == IF turn(b) = WHITE THEN time_limit.white_inc
                    ELSE time_limit.black_inc
         IN  [my_time |-> IF clock = <<>> THEN 0 ELSE clock[1],
              my_inc |-> IF inc = <<>> THEN 0 ELSE inc[1]]

\* C10: ComboEngine.search takes the plenty-of-time branch exactly when
\* my_time/60 + my_inc > 10; otherwise it returns the eligible move whose UCI
\* text is lexicographically least.
C10_ThresholdAndLeastUci ==
    result.op = "ComboEngine" =>
        LET clock == ClaimedClock(result.board, result.time_limit)
            plenty == clock.my_time + 60 * clock.my_inc > 600
            eligible == Eligible(result.board, result.root_moves)
        IN  /\ result.random <=> plenty
            /\ (~plenty /\ eligible # {}) =>
                   /\ result.ok
                   /\ result.move \in eligible
                   /\ \A m \in eligible : ~StrLess(uci(m), uci(result.move))
====
